---- MODULE Spec2Model ----
(***************************************************************************)
(* The mplex stream multiplexer of py-libp2p                               *)
(* (libp2p/stream_muxer/mplex/mplex.py): two Mplex endpoints, "A" and      *)
(* "B", joined by a secured transport.  Each endpoint runs one read loop   *)
(* (handle_incoming) and serves user calls: open_stream, accept_stream,    *)
(* close, and the per-stream write, close and reset.  A second             *)
(* specification has tasks emit frames at the same time, byte by byte.     *)
(*                                                                         *)
(* Scheduling is trio's: a task runs without interruption from one         *)
(* checkpoint (an await on the transport, on a lock or on a memory         *)
(* channel) to the next.  An action of the model is the code between two   *)
(* checkpoints, or several such blocks where the text of the action says   *)
(* why no other task can tell the difference.  streams_lock is a           *)
(* trio.Lock: a task that asks for it when it is free takes it and yields, *)
(* any other parks, and a release hands it to the task that parked first.  *)
(***************************************************************************)
EXTENDS Integers, Sequences, FiniteSets, TLC

\* ------------------------------------------------------------------ bounds

\* Streams an endpoint may open (open_stream calls per endpoint).
MaxChan == 2
\* User calls and injected frames in one run, in total.
MaxOps == 4
\* Frames a misbehaving peer or network puts on the transport, in total.
MaxInject == 1
\* Callers of Mplex.close per endpoint.
MaxClosers == 2
\* Tasks that emit a frame each at the same time.
MaxWriters == 3

\* ------------------------------------------------------------ the endpoints

E == {"A", "B"}

Peer(e) == IF e = "A" THEN "B" ELSE "A"

Closers == 1..MaxClosers

\* --------------------------------------------------------------- HeaderTags

NewStream == 0
MessageReceiver == 1
MessageInitiator == 2
CloseReceiver == 3
CloseInitiator == 4
ResetReceiver == 5
ResetInitiator == 6

HeaderTags == {NewStream, MessageReceiver, MessageInitiator, CloseReceiver,
               CloseInitiator, ResetReceiver, ResetInitiator}

\* The 3-bit flag value that is no HeaderTags member.
UnknownFlag == CHOOSE f \in 0..7 : f \notin HeaderTags

\* ----------------------------------------------------------------- StreamID

StreamID(c, i) == [channel_id |-> c, is_initiator |-> i]

\* ------------------------------------------------------------------- bytes

\* str(channel_id).encode(): the ASCII decimal digits of n.
RECURSIVE DecimalBytes(_)
DecimalBytes(n) ==
    IF n < 10 THEN <<48 + n>>
    ELSE DecimalBytes(n \div 10) \o <<48 + (n % 10)>>

\* A continuation byte of UTF-8.
Utf8Cont(b) == b >= 128 /\ b <= 191

RECURSIVE Utf8Valid(_)
\* Whether message.decode() succeeds, i.e. the bytes are well-formed UTF-8:
\* sequences of one to four bytes, no overlong form, no surrogate and nothing
\* above U+10FFFF.
Utf8Valid(bs) ==
    IF bs = <<>> THEN TRUE
    ELSE LET b == Head(bs)
             n == Len(bs)
         IN IF b < 128 THEN Utf8Valid(Tail(bs))
            ELSE IF b >= 194 /\ b <= 223
            THEN /\ n >= 2
                 /\ Utf8Cont(bs[2])
                 /\ Utf8Valid(SubSeq(bs, 3, n))
            ELSE IF b >= 224 /\ b <= 239
            THEN /\ n >= 3
                 /\ bs[2] >= (IF b = 224 THEN 160 ELSE 128)
                 /\ bs[2] <= (IF b = 237 THEN 159 ELSE 191)
                 /\ Utf8Cont(bs[3])
                 /\ Utf8Valid(SubSeq(bs, 4, n))
            ELSE IF b >= 240 /\ b <= 244
            THEN /\ n >= 4
                 /\ bs[2] >= (IF b = 240 THEN 144 ELSE 128)
                 /\ bs[2] <= (IF b = 244 THEN 143 ELSE 191)
                 /\ Utf8Cont(bs[3])
                 /\ Utf8Cont(bs[4])
                 /\ Utf8Valid(SubSeq(bs, 5, n))
            ELSE FALSE

\* Payloads of stream writes.
Payloads == {<<1>>, <<2>>}

\* ------------------------------------------------------------------- frames

\* header = (channel_id << 3) | flag
EncodeHeader(channel_id, flag) == channel_id * 8 + flag

\* flag = header & 0x07
HeaderFlag(header) == header % 8

\* channel_id = header >> 3
HeaderChannel(header) == header \div 8

\* One frame on the transport.  ok = FALSE stands for bytes that do not parse
\* as a header varint followed by a length-prefixed body.
Frame(channel_id, flag, data) ==
    [header |-> EncodeHeader(channel_id, flag), data |-> data, ok |-> TRUE]

Malformed == [header |-> 0, data |-> <<>>, ok |-> FALSE]

\* encode_uvarint: little-endian base 128, the high bit set on every byte but
\* the last.
RECURSIVE encode_uvarint(_)
encode_uvarint(n) ==
    IF n < 128 THEN <<n>>
    ELSE <<(n % 128) + 128>> \o encode_uvarint(n \div 128)

\* encode_varint_prefixed: the length as a uvarint, then the bytes.
encode_varint_prefixed(data) == encode_uvarint(Len(data)) \o data

\* The number of bytes the uvarint at the head of bs takes; 0 when bs ends
\* before a byte without the high bit.
RECURSIVE UvarintLen(_)
UvarintLen(bs) ==
    IF bs = <<>> THEN 0
    ELSE IF Head(bs) < 128 THEN 1
    ELSE LET r == UvarintLen(Tail(bs)) IN IF r = 0 THEN 0 ELSE r + 1

\* decode_uvarint of the bytes of one uvarint.
RECURSIVE decode_uvarint(_)
decode_uvarint(bs) ==
    IF bs = <<>> THEN 0
    ELSE (Head(bs) % 128) + 128 * decode_uvarint(Tail(bs))

\* send_message: _bytes = header + encode_varint_prefixed(data), the header
\* being encode_uvarint((channel_id << 3) | flag).
FrameBytes(channel_id, flag, data) ==
    encode_uvarint(EncodeHeader(channel_id, flag))
       \o encode_varint_prefixed(data)

\* A send_message that hands the frame to secured_conn.write in two calls,
\* the header first and the length and payload after it.
WriteCallsSplit(channel_id, flag, data) ==
    <<encode_uvarint(EncodeHeader(channel_id, flag)),
      encode_varint_prefixed(data)>>

\* The calls of secured_conn.write that send_message makes for one frame:
\* write_to_stream is called once, with _bytes.
WriteCalls(channel_id, flag, data) == <<FrameBytes(channel_id, flag, data)>>

\* read_message over and over on the bytes bs: the frames read, and whether
\* the bytes end where a frame ends.
RECURSIVE ReadFrames(_)
ReadFrames(bs) ==
    IF bs = <<>> THEN [ok |-> TRUE, frames |-> <<>>]
    ELSE
    LET hl == UvarintLen(bs)
        body == SubSeq(bs, hl + 1, Len(bs))
        ll == UvarintLen(body)
        n == decode_uvarint(SubSeq(body, 1, ll))
        rest == SubSeq(body, ll + 1, Len(body))
    IN IF hl = 0 \/ ll = 0 \/ Len(rest) < n
       THEN [ok |-> FALSE, frames |-> <<>>]
       ELSE LET more == ReadFrames(SubSeq(rest, n + 1, Len(rest)))
            IN [ok |-> more.ok,
                frames |-> <<[header |-> decode_uvarint(SubSeq(bs, 1, hl)),
                              data |-> SubSeq(rest, 1, n),
                              ok |-> TRUE]>> \o more.frames]

\* What a misbehaving peer may send.
InjectFrames ==
    { Frame(0, UnknownFlag, <<>>),
      Frame(0, NewStream, DecimalBytes(0)),
      Frame(0, NewStream, <<255>>),
      Frame(0, NewStream, <<226, 130, 172>>),
      Frame(0, MessageInitiator, <<1>>),
      Malformed }

VARIABLES
    next_channel_id,       \* [E -> Nat]
    streams,               \* [E -> [StreamID -> index into objs]]
    streams_none,          \* [E -> BOOLEAN]: self.streams is None
    streams_msg_channels,  \* [E -> [StreamID -> index into objs]]
    streams_lock,          \* [E -> "free" | "rl" | "open"]: who holds it
    lock_waiters,          \* [E -> Seq(task)]: the tasks parked on the lock
    objs,                  \* [E -> Seq(MplexStream and its inbox)]
    new_stream_q,          \* [E -> accept queue: items, send/receive ends]
    event_shutting_down,   \* [E -> BOOLEAN]
    event_closed,          \* [E -> BOOLEAN]
    conn_closed,           \* [E -> BOOLEAN]: secured_conn.close() was called
    wire,                  \* [E -> Seq(frame)]: bytes in flight towards E
    rl_pc,                 \* [E -> position of handle_incoming]
    rl_frame,              \* [E -> the frame read_message returned]
    rl_local,              \* [E -> the locals stream and send_channel]
    open_calls,            \* [E -> Seq(open_stream call)]
    close_pc,              \* [E -> [Closers -> position of Mplex.close]]
    rm_pending,            \* [E -> set of objs indices awaiting table removal]
    nops,                  \* Nat: user calls and injected frames so far
    ninject,               \* Nat: injected frames so far
    accept_calls,          \* [E -> the task that calls accept_stream]
    rl_error,              \* [E -> the MplexUnavailable that ended the loop]
    writers,               \* [task -> a frame and the write calls made for it]
    tx                     \* Seq(byte): what secured_conn.write was given

vars == <<next_channel_id, streams, streams_none, streams_msg_channels,
          streams_lock, lock_waiters, objs, new_stream_q, event_shutting_down,
          event_closed, conn_closed, wire, rl_pc, rl_frame, rl_local,
          open_calls, close_pc, rm_pending, nops, ninject, accept_calls,
          rl_error, writers, tx>>

\* ----------------------------------------------------------------- helpers

EmptyTable == [k \in {} |-> 0]

TablePut(t, k, v) == [x \in DOMAIN t \cup {k} |-> IF x = k THEN v ELSE t[x]]

TableDel(t, k) == [x \in DOMAIN t \ {k} |-> t[x]]

NoFrame == [channel_id |-> 0, flag |-> 0, message |-> <<>>]

\* The locals `stream` and `send_channel` of a handler and of the loop of
\* _cleanup, as indices into objs; 0 before they are assigned.
NoLocals == [stream |-> 0, send_channel |-> 0]

\* MplexStream(name, stream_id, muxed_conn, receive_channel) with the memory
\* channel open_memory_channel(math.inf) made for it.  inbox is what was put
\* in the channel and sent is what write() was given, both from the start.
NewStreamObj(sid, name) ==
    [stream_id |-> sid, name |-> name,
     local_closed |-> FALSE, remote_closed |-> FALSE, reset |-> FALSE,
     inbox |-> <<>>, send_closed |-> FALSE, recv_closed |-> FALSE,
     in_table |-> FALSE, sent |-> <<>>]

\* ------------------------------------------------------------ the transport

\* secured_conn.write: fails once this endpoint has closed the transport; once
\* the peer has closed it the bytes are lost and the call may fail or not.
WriteOutcomes(e) ==
    IF conn_closed[e] THEN {"err"}
    ELSE IF conn_closed[Peer(e)] THEN {"ok", "err"}
    ELSE {"ok"}

\* Mplex.send_message / write_to_stream: the wire after the frame is written
\* with outcome oc.
send_message(e, flag, data, sid, oc) ==
    IF oc = "ok" /\ ~conn_closed[Peer(e)]
    THEN [wire EXCEPT ![Peer(e)] = Append(@, Frame(sid.channel_id, flag, data))]
    ELSE wire

MuxInit ==
    /\ next_channel_id = [e \in E |-> 0]
    /\ streams = [e \in E |-> EmptyTable]
    /\ streams_none = [e \in E |-> FALSE]
    /\ streams_msg_channels = [e \in E |-> EmptyTable]
    /\ streams_lock = [e \in E |-> "free"]
    /\ lock_waiters = [e \in E |-> <<>>]
    /\ objs = [e \in E |-> <<>>]
    /\ new_stream_q = [e \in E |->
          [items |-> <<>>, send_closed |-> FALSE, recv_closed |-> FALSE]]
    /\ event_shutting_down = [e \in E |-> FALSE]
    /\ event_closed = [e \in E |-> FALSE]
    /\ conn_closed = [e \in E |-> FALSE]
    /\ wire = [e \in E |-> <<>>]
    /\ rl_pc = [e \in E |-> "read"]
    /\ rl_frame = [e \in E |-> NoFrame]
    /\ rl_local = [e \in E |-> NoLocals]
    /\ open_calls = [e \in E |-> <<>>]
    /\ close_pc = [e \in E |-> [t \in Closers |-> "idle"]]
    /\ rm_pending = [e \in E |-> {}]
    /\ nops = 0
    /\ ninject = 0
    /\ accept_calls = [e \in E |-> [pc |-> "idle", got |-> <<>>]]
    /\ rl_error = [e \in E |-> "none"]

\* Two multiplexers on one connection, their read loops started; no task
\* writes to the connection but through them.
Init ==
    /\ MuxInit
    /\ writers = <<>>
    /\ tx = <<>>


\* ------------------------------------------------------------- streams_lock

\* The tasks that take streams_lock through `async with`: the task of
\* handle_incoming, and the k-th open_stream call as task k.
ReadLoopTask == 0

HolderName(t) == IF t = ReadLoopTask THEN "rl" ELSE "open"

\* The lock of endpoint e: who holds it and who is parked on it, in order.
LockOf(e) == [owner |-> streams_lock[e], waiters |-> lock_waiters[e]]

\* trio.Lock.acquire by task t: a free lock is taken and the task yields
\* holding it; a held lock parks the task behind those that wait already.
\* Either way the segment of the task ends here.
LockAcquire(lk, t) ==
    IF lk.owner = "free"
    THEN [owner |-> HolderName(t), waiters |-> lk.waiters]
    ELSE [owner |-> lk.owner, waiters |-> Append(lk.waiters, t)]

\* trio.Lock.release: the lock passes to the task that has waited longest and
\* is free when none waits.
LockRelease(lk) ==
    IF lk.waiters = <<>>
    THEN [owner |-> "free", waiters |-> <<>>]
    ELSE [owner |-> HolderName(Head(lk.waiters)), waiters |-> Tail(lk.waiters)]

SetLock(e, lk) ==
    /\ streams_lock' = [streams_lock EXCEPT ![e] = lk.owner]
    /\ lock_waiters' = [lock_waiters EXCEPT ![e] = lk.waiters]

\* Task t of endpoint e holds streams_lock.
OwnsLock(e, t) ==
    /\ streams_lock[e] = HolderName(t)
    /\ \A n \in DOMAIN lock_waiters[e] : lock_waiters[e][n] # t

\* A user call (or an injected frame) starts: one more of the MaxOps.
UserOp ==
    /\ nops < MaxOps
    /\ nops' = nops + 1

\* -------------------------------------------------------------- open_stream

\* A _get_next_channel_id that leaves the counter as it is.
_get_next_channel_id_same(next_id) == next_id

\* _get_next_channel_id: the counter after the call; the call returns the
\* counter before it.
_get_next_channel_id(next_id) == next_id + 1

\* open_stream up to the end of its first segment, `async with
\* self.streams_lock` in _initialize_stream: the channel id is taken, the
\* stream object is built, and the lock is taken or the call parks on it.
\* overlapped tells that another open_stream call had not returned yet.
open_stream_begin(e) ==
    /\ next_channel_id[e] < MaxChan
    /\ UserOp
    /\ next_channel_id' = [next_channel_id EXCEPT
          ![e] = _get_next_channel_id(@)]
    /\ objs' = [objs EXCEPT ![e] =
          Append(@, NewStreamObj(StreamID(next_channel_id[e], TRUE),
                                 DecimalBytes(next_channel_id[e])))]
    /\ open_calls' = [open_calls EXCEPT ![e] =
          Append(@, [channel_id |-> next_channel_id[e],
                     obj |-> Len(objs[e]) + 1,
                     shutting_down |-> event_shutting_down[e],
                     overlapped |-> \E k \in DOMAIN open_calls[e] :
                                      open_calls[e][k].result = "pending",
                     result |-> "pending"])]
    /\ SetLock(e, LockAcquire(LockOf(e), Len(open_calls[e]) + 1))
    /\ UNCHANGED <<streams, streams_none, streams_msg_channels,
                   new_stream_q, event_shutting_down, event_closed,
                   conn_closed, wire, rl_pc, rl_frame, rl_local, close_pc,
                   rm_pending, ninject, accept_calls, rl_error, writers, tx>>

\* The tables after _initialize_stream's locked block put object i under sid.
\* Assigning into self.streams when it is None raises TypeError: the caller
\* tests streams_none first.
_initialize_stream(tbl, sid, i) == TablePut(tbl, sid, i)

\* The rest of open_stream, once the call holds the lock: the locked block of
\* _initialize_stream, then send_message(NewStream, name).  An error of
\* secured_conn.write is not caught on the way out.
open_stream_finish(e, k) ==
    /\ k \in DOMAIN open_calls[e]
    /\ open_calls[e][k].result = "pending"
    /\ OwnsLock(e, k)
    /\ SetLock(e, LockRelease(LockOf(e)))
    /\ LET call == open_calls[e][k]
           sid == StreamID(call.channel_id, TRUE)
       IN IF streams_none[e]
          THEN /\ open_calls' = [open_calls EXCEPT ![e][k].result = "TypeError"]
               /\ UNCHANGED <<streams, streams_msg_channels, objs, wire>>
          ELSE \E oc \in WriteOutcomes(e) :
               /\ streams' = [streams EXCEPT
                     ![e] = _initialize_stream(@, sid, call.obj)]
               /\ streams_msg_channels' = [streams_msg_channels EXCEPT
                     ![e] = _initialize_stream(@, sid, call.obj)]
               /\ objs' = [objs EXCEPT ![e][call.obj].in_table = TRUE]
               /\ wire' = send_message(e, NewStream,
                                       objs[e][call.obj].name, sid, oc)
               /\ open_calls' = [open_calls EXCEPT ![e][k].result =
                     IF oc = "ok" THEN "ok" ELSE "TransportError"]
    /\ UNCHANGED <<next_channel_id, streams_none, new_stream_q,
                   event_shutting_down, event_closed, conn_closed, rl_pc,
                   rl_frame, rl_local, close_pc, rm_pending, nops, ninject,
                   accept_calls, rl_error, writers, tx>>

\* -------------------------------------------------------------- Mplex.close

\* close() up to `await self.event_closed.wait()`: a caller that finds
\* event_shutting_down set returns at once, any other sets it and closes the
\* secured connection.
close_begin(e, t) ==
    /\ close_pc[e][t] = "idle"
    /\ UserOp
    /\ IF event_shutting_down[e]
       THEN /\ close_pc' = [close_pc EXCEPT ![e][t] = "done"]
            /\ UNCHANGED <<event_shutting_down, conn_closed>>
       ELSE /\ event_shutting_down' = [event_shutting_down EXCEPT ![e] = TRUE]
            /\ conn_closed' = [conn_closed EXCEPT ![e] = TRUE]
            /\ close_pc' = [close_pc EXCEPT ![e][t] = "wait"]
    /\ UNCHANGED <<next_channel_id, streams, streams_none,
                   streams_msg_channels, streams_lock, objs, new_stream_q,
                   event_closed, wire, rl_pc, rl_frame, open_calls,
                   rm_pending, ninject,
                   accept_calls, rl_error, writers, tx,
                   lock_waiters, rl_local>>

\* close() returns from event_closed.wait().
close_return(e, t) ==
    /\ close_pc[e][t] = "wait"
    /\ event_closed[e]
    /\ close_pc' = [close_pc EXCEPT ![e][t] = "done"]
    /\ UNCHANGED <<next_channel_id, streams, streams_none,
                   streams_msg_channels, streams_lock, objs, new_stream_q,
                   event_shutting_down, event_closed, conn_closed, wire,
                   rl_pc, rl_frame, open_calls, rm_pending, nops, ninject,
                   accept_calls, rl_error, writers, tx,
                   lock_waiters, rl_local>>

\* is_closed()
is_closed(e) == event_closed[e]


\* ------------------------------------------------------------ accept_stream

\* One task per endpoint calls accept_stream, one call after the other, until
\* a call fails.  got is what the calls returned, in order.
AcceptReturns(call, i) == [pc |-> "idle", got |-> Append(call.got, i)]

\* The call raised MplexUnavailable.
AcceptFails(call) == [call EXCEPT !.pc = "failed"]

\* accept_stream: new_stream_receive_channel.receive().  A closed receive end
\* raises ClosedResourceError, a buffered stream is returned, an empty buffer
\* whose send end is closed raises EndOfChannel, and otherwise the task waits
\* until _handle_new_stream or _cleanup wakes it.  Both errors are turned into
\* MplexUnavailable.
accept_stream(e) ==
    /\ accept_calls[e].pc = "idle"
    /\ UserOp
    /\ IF new_stream_q[e].recv_closed
       THEN /\ accept_calls' = [accept_calls EXCEPT ![e] = AcceptFails(@)]
            /\ UNCHANGED new_stream_q
       ELSE IF new_stream_q[e].items # <<>>
       THEN /\ accept_calls' = [accept_calls EXCEPT
                  ![e] = AcceptReturns(@, Head(new_stream_q[e].items))]
            /\ new_stream_q' = [new_stream_q EXCEPT ![e].items = Tail(@)]
       ELSE IF new_stream_q[e].send_closed
       THEN /\ accept_calls' = [accept_calls EXCEPT ![e] = AcceptFails(@)]
            /\ UNCHANGED new_stream_q
       ELSE /\ accept_calls' = [accept_calls EXCEPT ![e].pc = "waiting"]
            /\ UNCHANGED new_stream_q
    /\ UNCHANGED <<next_channel_id, streams, streams_none,
                   streams_msg_channels, streams_lock, objs,
                   event_shutting_down, event_closed, conn_closed, wire,
                   rl_pc, rl_frame, open_calls, close_pc, rm_pending,
                   ninject, rl_error, writers, tx,
                   lock_waiters, rl_local>>

\* ------------------------------------------------------------ the read loop

\* The objs of endpoint e with object i replaced by r.
SetObj(e, i, r) == [objs EXCEPT ![e][i] = r]

\* handle_incoming leaves its loop on MplexUnavailable and calls _cleanup,
\* which sets event_shutting_down and ends the segment at `async with
\* self.streams_lock`: the lock, lk at that point, is taken or the read loop
\* parks on it.  why is the MplexUnavailable that was raised.
EnterCleanup(e, why, lk) ==
    /\ rl_error' = [rl_error EXCEPT ![e] = why]
    /\ event_shutting_down' = [event_shutting_down EXCEPT ![e] = TRUE]
    /\ SetLock(e, LockAcquire(lk, ReadLoopTask))
    /\ rl_local' = [rl_local EXCEPT ![e] = NoLocals]
    /\ rl_pc' = [rl_pc EXCEPT ![e] = "cleanup"]

\* read_message, called from _handle_incoming_message: one frame is taken off
\* the secured connection; a closed connection, an end of stream and bytes
\* that do not parse raise MplexUnavailable.  With a frame in hand the
\* segment runs on into the handler, which starts with `async with
\* self.streams_lock`, whatever the flag.
read_message(e) ==
    /\ rl_pc[e] = "read"
    /\ \/ /\ conn_closed[e]
          /\ EnterCleanup(e, "read failed", LockOf(e))
          /\ UNCHANGED <<wire, rl_frame>>
       \/ /\ ~conn_closed[e]
          /\ wire[e] # <<>>
          /\ Head(wire[e]).ok
          /\ rl_frame' = [rl_frame EXCEPT ![e] =
                [channel_id |-> HeaderChannel(Head(wire[e]).header),
                 flag |-> HeaderFlag(Head(wire[e]).header),
                 message |-> Head(wire[e]).data]]
          /\ wire' = [wire EXCEPT ![e] = Tail(@)]
          /\ rl_pc' = [rl_pc EXCEPT ![e] = "handle"]
          /\ SetLock(e, LockAcquire(LockOf(e), ReadLoopTask))
          /\ UNCHANGED <<event_shutting_down, rl_error, rl_local>>
       \/ /\ ~conn_closed[e]
          /\ wire[e] # <<>>
          /\ ~Head(wire[e]).ok
          /\ wire' = [wire EXCEPT ![e] = Tail(@)]
          /\ EnterCleanup(e, "read failed", LockOf(e))
          /\ UNCHANGED rl_frame
       \/ /\ ~conn_closed[e]
          /\ wire[e] = <<>>
          /\ conn_closed[Peer(e)]
          /\ EnterCleanup(e, "read failed", LockOf(e))
          /\ UNCHANGED <<wire, rl_frame>>
    /\ UNCHANGED <<next_channel_id, streams, streams_none,
                   streams_msg_channels, objs, new_stream_q, event_closed,
                   conn_closed, open_calls, close_pc, rm_pending, nops,
                   ninject, accept_calls, writers, tx>>

\* A stream id that takes every frame as one for a stream the peer opened.
FrameStreamIDReceiver(f) == StreamID(f.channel_id, FALSE)

\* stream_id = StreamID(channel_id, is_initiator=bool(flag & 1))
FrameStreamID(f) == StreamID(f.channel_id, (f.flag % 2) = 1)

\* A send that puts the stream in front of those the buffer holds.
QueueSendFront(items, i) == <<i>> \o items

\* new_stream_send_channel.send(mplex_stream) with no task waiting: the stream
\* goes behind those the buffer holds.
QueueSend(items, i) == Append(items, i)

\* The handler that is dispatched for the frame the read loop of e holds has
\* the lock and runs its first locked block.
Handles(e, flags) ==
    /\ rl_pc[e] = "handle"
    /\ rl_frame[e].flag \in flags
    /\ OwnsLock(e, ReadLoopTask)

\* The handler returns and the loop calls read_message, which waits for the
\* connection.
BackToRead(e) ==
    /\ rl_pc' = [rl_pc EXCEPT ![e] = "read"]
    /\ rl_local' = [rl_local EXCEPT ![e] = NoLocals]

\* An exception that is not MplexUnavailable ends handle_incoming.
Crash(e) ==
    /\ rl_pc' = [rl_pc EXCEPT ![e] = "crashed"]
    /\ rl_local' = [rl_local EXCEPT ![e] = NoLocals]

\* _handle_new_stream, the locked block with the duplicate test, then
\* message.decode() and _initialize_stream up to its `async with
\* self.streams_lock`: the stream object is built and is in no table yet.
_handle_new_stream(e) ==
    /\ Handles(e, {NewStream})
    /\ LET sid == FrameStreamID(rl_frame[e])
           i == Len(objs[e]) + 1
           released == LockRelease(LockOf(e))
       IN IF sid \in DOMAIN streams[e]
          THEN \* raise MplexUnavailable
               /\ EnterCleanup(e, "existing stream", released)
               /\ UNCHANGED objs
          ELSE IF ~Utf8Valid(rl_frame[e].message)
          THEN \* UnicodeDecodeError leaves handle_incoming uncaught
               /\ Crash(e)
               /\ SetLock(e, released)
               /\ UNCHANGED <<objs, event_shutting_down, rl_error>>
          ELSE /\ objs' = [objs EXCEPT ![e] =
                     Append(@, NewStreamObj(sid, rl_frame[e].message))]
               /\ rl_local' = [rl_local EXCEPT
                     ![e] = [stream |-> i, send_channel |-> i]]
               /\ SetLock(e, LockAcquire(released, ReadLoopTask))
               /\ rl_pc' = [rl_pc EXCEPT ![e] = "new_stream_init"]
               /\ UNCHANGED <<event_shutting_down, rl_error>>
    /\ UNCHANGED <<next_channel_id, streams, streams_none,
                   streams_msg_channels, new_stream_q, event_closed,
                   conn_closed, wire, rl_frame, open_calls, close_pc,
                   rm_pending, nops, ninject, accept_calls, writers, tx>>

\* The rest of _handle_new_stream, once the read loop holds the lock again:
\* the locked block of _initialize_stream and new_stream_send_channel.send.
\* Of the errors of send, BrokenResourceError (the receive end is closed)
\* becomes MplexUnavailable and ClosedResourceError (the send end is closed)
\* is not caught.  send hands the stream to a task that waits in receive, and
\* leaves it in the buffer when there is none.
_handle_new_stream_send(e) ==
    /\ rl_pc[e] = "new_stream_init"
    /\ OwnsLock(e, ReadLoopTask)
    /\ LET sid == FrameStreamID(rl_frame[e])
           i == rl_local[e].stream
           released == LockRelease(LockOf(e))
       IN /\ objs' = [objs EXCEPT ![e][i].in_table = TRUE]
          /\ streams' = [streams EXCEPT ![e] = _initialize_stream(@, sid, i)]
          /\ streams_msg_channels' = [streams_msg_channels EXCEPT
                ![e] = _initialize_stream(@, sid, i)]
          /\ IF new_stream_q[e].send_closed
             THEN /\ Crash(e)
                  /\ SetLock(e, released)
                  /\ UNCHANGED <<new_stream_q, accept_calls,
                                 event_shutting_down, rl_error>>
             ELSE IF new_stream_q[e].recv_closed
             THEN /\ EnterCleanup(e, "accept queue", released)
                  /\ UNCHANGED <<new_stream_q, accept_calls>>
             ELSE /\ IF accept_calls[e].pc = "waiting"
                     THEN /\ accept_calls' = [accept_calls EXCEPT
                                ![e] = AcceptReturns(@, i)]
                          /\ UNCHANGED new_stream_q
                     ELSE /\ new_stream_q' = [new_stream_q EXCEPT
                                ![e].items = QueueSend(@, i)]
                          /\ UNCHANGED accept_calls
                  /\ BackToRead(e)
                  /\ SetLock(e, released)
                  /\ UNCHANGED <<event_shutting_down, rl_error>>
    /\ UNCHANGED <<next_channel_id, streams_none, event_closed, conn_closed,
                   wire, rl_frame, open_calls, close_pc, rm_pending, nops,
                   ninject, writers, tx>>

\* A send that puts the payload in front of what the channel holds.
InboxPutFront(inbox, message) == <<message>> \o inbox

\* send_channel.send(message): the payload goes behind what the channel
\* holds.
InboxPut(inbox, message) == Append(inbox, message)

\* A _handle_message without the test of event_remote_closed.
DropsMessageNever(stream) == FALSE

\* _handle_message: `if stream.event_remote_closed.is_set(): return`.
DropsMessage(stream) == stream.remote_closed

\* A _handle_message that takes a frame for an id that is not in the table as
\* the end of the connection and raises MplexUnavailable.
_handle_message_unknown_fatal(e) ==
    /\ Handles(e, {MessageInitiator, MessageReceiver})
    /\ LET sid == FrameStreamID(rl_frame[e])
           released == LockRelease(LockOf(e))
       IN IF sid \notin DOMAIN streams[e]
          THEN EnterCleanup(e, "unknown stream", released)
          ELSE /\ rl_local' = [rl_local EXCEPT ![e] =
                     [stream |-> streams[e][sid],
                      send_channel |-> streams_msg_channels[e][sid]]]
               /\ rl_pc' = [rl_pc EXCEPT ![e] = "message_test"]
               /\ SetLock(e, released)
               /\ UNCHANGED <<event_shutting_down, rl_error>>
    /\ UNCHANGED <<next_channel_id, streams, streams_none,
                   streams_msg_channels, objs, new_stream_q, event_closed,
                   conn_closed, wire, rl_frame, open_calls, close_pc,
                   rm_pending, nops, ninject, accept_calls, writers, tx>>

\* _handle_message, the block under streams_lock: a frame for an id that is
\* not in the table is dropped; otherwise the stream and its channel are
\* looked up and the segment ends at `async with stream.close_lock`.
_handle_message(e) ==
    /\ Handles(e, {MessageInitiator, MessageReceiver})
    /\ LET sid == FrameStreamID(rl_frame[e])
       IN IF sid \notin DOMAIN streams[e]
          THEN BackToRead(e)
          ELSE /\ rl_local' = [rl_local EXCEPT ![e] =
                     [stream |-> streams[e][sid],
                      send_channel |-> streams_msg_channels[e][sid]]]
               /\ rl_pc' = [rl_pc EXCEPT ![e] = "message_test"]
    /\ SetLock(e, LockRelease(LockOf(e)))
    /\ UNCHANGED <<next_channel_id, streams, streams_none,
                   streams_msg_channels, objs, new_stream_q,
                   event_shutting_down, event_closed, conn_closed, wire,
                   rl_frame, open_calls, close_pc, rm_pending, nops,
                   ninject, accept_calls, rl_error, writers, tx>>

\* The rest of _handle_message: the test of event_remote_closed under
\* close_lock and send_channel.send(message), which raises
\* ClosedResourceError or BrokenResourceError on a closed channel; neither is
\* caught by handle_incoming.
_handle_message_send(e) ==
    /\ rl_pc[e] = "message_test"
    /\ LET stream == objs[e][rl_local[e].stream]
           ch == rl_local[e].send_channel
       IN IF DropsMessage(stream)
          THEN /\ BackToRead(e)
               /\ UNCHANGED objs
          ELSE IF objs[e][ch].send_closed \/ objs[e][ch].recv_closed
          THEN /\ Crash(e)
               /\ UNCHANGED objs
          ELSE /\ objs' = [objs EXCEPT
                     ![e][ch].inbox = InboxPut(@, rl_frame[e].message)]
               /\ BackToRead(e)
    /\ UNCHANGED <<next_channel_id, streams, streams_none,
                   streams_msg_channels, streams_lock, lock_waiters,
                   new_stream_q, event_shutting_down, event_closed,
                   conn_closed, wire, rl_frame, open_calls, close_pc,
                   rm_pending, nops, ninject, accept_calls, rl_error,
                   writers, tx>>

\* A _handle_close that drops the id from self.streams on every Close frame.
LeavesTableOnCloseAlways(stream) == TRUE

\* _handle_close: `if is_local_closed` decides whether self.streams loses the
\* id.
LeavesTableOnClose(stream) == stream.local_closed

\* _handle_close, the block under streams_lock and send_channel.aclose(),
\* which closes the channel and yields.  A frame for an id that is not in the
\* table is dropped.
_handle_close(e) ==
    /\ Handles(e, {CloseInitiator, CloseReceiver})
    /\ LET sid == FrameStreamID(rl_frame[e])
       IN IF sid \notin DOMAIN streams[e]
          THEN /\ BackToRead(e)
               /\ UNCHANGED objs
          ELSE /\ rl_local' = [rl_local EXCEPT ![e] =
                     [stream |-> streams[e][sid],
                      send_channel |-> streams_msg_channels[e][sid]]]
               /\ objs' = [objs EXCEPT
                     ![e][streams_msg_channels[e][sid]].send_closed = TRUE]
               /\ rl_pc' = [rl_pc EXCEPT ![e] = "close_test"]
    /\ SetLock(e, LockRelease(LockOf(e)))
    /\ UNCHANGED <<next_channel_id, streams, streams_none,
                   streams_msg_channels, new_stream_q, event_shutting_down,
                   event_closed, conn_closed, wire, rl_frame, open_calls,
                   close_pc, rm_pending, nops, ninject, accept_calls,
                   rl_error, writers, tx>>

\* _handle_close, the first block under close_lock: `if
\* stream.event_remote_closed.is_set(): return`.  The segment ends at the
\* second `async with stream.close_lock`.
_handle_close_test(e) ==
    /\ rl_pc[e] = "close_test"
    /\ IF objs[e][rl_local[e].stream].remote_closed
       THEN BackToRead(e)
       ELSE /\ rl_pc' = [rl_pc EXCEPT ![e] = "close_set"]
            /\ UNCHANGED rl_local
    /\ UNCHANGED <<next_channel_id, streams, streams_none,
                   streams_msg_channels, streams_lock, lock_waiters, objs,
                   new_stream_q, event_shutting_down, event_closed,
                   conn_closed, wire, rl_frame, open_calls, close_pc,
                   rm_pending, nops, ninject, accept_calls, rl_error,
                   writers, tx>>

\* _handle_close, the second block under close_lock: event_remote_closed is
\* set, and when the stream is closed locally too the segment ends at `async
\* with self.streams_lock`.
_handle_close_set(e) ==
    /\ rl_pc[e] = "close_set"
    /\ LET i == rl_local[e].stream
       IN /\ objs' = [objs EXCEPT ![e][i].remote_closed = TRUE]
          /\ IF LeavesTableOnClose(objs[e][i])
             THEN /\ SetLock(e, LockAcquire(LockOf(e), ReadLoopTask))
                  /\ rl_pc' = [rl_pc EXCEPT ![e] = "close_del"]
                  /\ UNCHANGED rl_local
             ELSE /\ BackToRead(e)
                  /\ UNCHANGED <<streams_lock, lock_waiters>>
    /\ UNCHANGED <<next_channel_id, streams, streams_none,
                   streams_msg_channels, new_stream_q, event_shutting_down,
                   event_closed, conn_closed, wire, rl_frame, open_calls,
                   close_pc, rm_pending, nops, ninject, accept_calls,
                   rl_error, writers, tx>>

\* _handle_close, the last block under streams_lock: the id leaves
\* self.streams, and only self.streams.
_handle_close_del(e) ==
    /\ rl_pc[e] = "close_del"
    /\ OwnsLock(e, ReadLoopTask)
    /\ streams' = [streams EXCEPT
          ![e] = TableDel(@, FrameStreamID(rl_frame[e]))]
    /\ SetLock(e, LockRelease(LockOf(e)))
    /\ BackToRead(e)
    /\ UNCHANGED <<next_channel_id, streams_none, streams_msg_channels, objs,
                   new_stream_q, event_shutting_down, event_closed,
                   conn_closed, wire, rl_frame, open_calls, close_pc,
                   rm_pending, nops, ninject, accept_calls, rl_error,
                   writers, tx>>

\* A block that stops after the first test and leaves local_closed alone.
ResetByPeerObjRemoteOnly(s) ==
    [s EXCEPT !.reset = IF ~s.remote_closed THEN TRUE ELSE @,
              !.remote_closed = TRUE]

\* The block of _handle_reset under close_lock on stream s: reset and
\* remote_closed are set when remote_closed was not, and local_closed when it
\* was not.
ResetByPeerObj(s) ==
    [s EXCEPT !.reset = IF ~s.remote_closed THEN TRUE ELSE @,
              !.remote_closed = TRUE,
              !.local_closed = TRUE]

\* _handle_reset, the block under streams_lock and send_channel.aclose(),
\* which closes the channel and yields.  A frame for an id that is not in the
\* table is dropped.
_handle_reset(e) ==
    /\ Handles(e, {ResetInitiator, ResetReceiver})
    /\ LET sid == FrameStreamID(rl_frame[e])
       IN IF sid \notin DOMAIN streams[e]
          THEN /\ BackToRead(e)
               /\ UNCHANGED objs
          ELSE /\ rl_local' = [rl_local EXCEPT ![e] =
                     [stream |-> streams[e][sid],
                      send_channel |-> streams_msg_channels[e][sid]]]
               /\ objs' = [objs EXCEPT
                     ![e][streams_msg_channels[e][sid]].send_closed = TRUE]
               /\ rl_pc' = [rl_pc EXCEPT ![e] = "reset_flags"]
    /\ SetLock(e, LockRelease(LockOf(e)))
    /\ UNCHANGED <<next_channel_id, streams, streams_none,
                   streams_msg_channels, new_stream_q, event_shutting_down,
                   event_closed, conn_closed, wire, rl_frame, open_calls,
                   close_pc, rm_pending, nops, ninject, accept_calls,
                   rl_error, writers, tx>>

\* _handle_reset, the block under close_lock; the segment ends at the second
\* `async with self.streams_lock`.
_handle_reset_flags(e) ==
    /\ rl_pc[e] = "reset_flags"
    /\ objs' = [objs EXCEPT ![e][rl_local[e].stream] = ResetByPeerObj(@)]
    /\ SetLock(e, LockAcquire(LockOf(e), ReadLoopTask))
    /\ rl_pc' = [rl_pc EXCEPT ![e] = "reset_del"]
    /\ UNCHANGED <<next_channel_id, streams, streams_none,
                   streams_msg_channels, new_stream_q, event_shutting_down,
                   event_closed, conn_closed, wire, rl_frame, rl_local,
                   open_calls, close_pc, rm_pending, nops, ninject,
                   accept_calls, rl_error, writers, tx>>

\* _handle_reset, the last block under streams_lock: the id, when it is in
\* self.streams, leaves both tables.
_handle_reset_del(e) ==
    /\ rl_pc[e] = "reset_del"
    /\ OwnsLock(e, ReadLoopTask)
    /\ LET sid == FrameStreamID(rl_frame[e])
       IN IF sid \in DOMAIN streams[e]
          THEN /\ streams' = [streams EXCEPT ![e] = TableDel(@, sid)]
               /\ streams_msg_channels' = [streams_msg_channels EXCEPT
                     ![e] = TableDel(@, sid)]
          ELSE UNCHANGED <<streams, streams_msg_channels>>
    /\ SetLock(e, LockRelease(LockOf(e)))
    /\ BackToRead(e)
    /\ UNCHANGED <<next_channel_id, streams_none, objs, new_stream_q,
                   event_shutting_down, event_closed, conn_closed, wire,
                   rl_frame, open_calls, close_pc, rm_pending, nops,
                   ninject, accept_calls, rl_error, writers, tx>>

\* ---------------------------------------------------------- the stream calls

\* The flag a stream uses for its frames: the Initiator tag on the side that
\* opened the stream, the Receiver tag on the other.
TagFor(sid, initiator_tag, receiver_tag) ==
    IF sid.is_initiator THEN initiator_tag ELSE receiver_tag

\* The streams a user can hold: those that were put in the table.
UserStreams(e) == {i \in DOMAIN objs[e] : objs[e][i].in_table}

\* MplexStream.reset up to the removal from the tables: under close_lock the
\* three flags are set, a Reset frame is emitted (a failure to write it is
\* ignored) and the incoming queue is closed.
ResetStreamObj(s) ==
    [s EXCEPT !.local_closed = TRUE, !.remote_closed = TRUE, !.reset = TRUE,
              !.recv_closed = TRUE]

stream_reset(e, i) ==
    /\ i \in UserStreams(e)
    /\ UserOp
    /\ ~(objs[e][i].local_closed /\ objs[e][i].remote_closed)
    /\ \E oc \in WriteOutcomes(e) :
          wire' = send_message(e, TagFor(objs[e][i].stream_id,
                                         ResetInitiator, ResetReceiver),
                               <<>>, objs[e][i].stream_id, oc)
    /\ objs' = SetObj(e, i, ResetStreamObj(objs[e][i]))
    /\ rm_pending' = [rm_pending EXCEPT ![e] = @ \cup {i}]
    /\ UNCHANGED <<next_channel_id, streams, streams_none,
                   streams_msg_channels, streams_lock, new_stream_q,
                   event_shutting_down, event_closed, conn_closed, rl_pc,
                   rl_frame, open_calls, close_pc, ninject,
                   accept_calls, rl_error, writers, tx,
                   lock_waiters, rl_local>>

\* MplexStream.close up to the removal from the tables: local_closed is set
\* and a Close frame is emitted; the stream leaves the tables when the remote
\* side had closed already.  A call whose frame cannot be written fails and
\* leaves the stream as it was.
stream_close(e, i) ==
    /\ i \in UserStreams(e)
    /\ UserOp
    /\ ~objs[e][i].local_closed
    /\ \E oc \in WriteOutcomes(e) :
          IF oc = "ok"
          THEN /\ objs' = [objs EXCEPT ![e][i].local_closed = TRUE]
               /\ wire' = send_message(e, TagFor(objs[e][i].stream_id,
                                                 CloseInitiator, CloseReceiver),
                                       <<>>, objs[e][i].stream_id, oc)
               /\ rm_pending' = [rm_pending EXCEPT ![e] =
                     IF objs[e][i].remote_closed THEN @ \cup {i} ELSE @]
          ELSE UNCHANGED <<objs, wire, rm_pending>>
    /\ UNCHANGED <<next_channel_id, streams, streams_none,
                   streams_msg_channels, streams_lock, new_stream_q,
                   event_shutting_down, event_closed, conn_closed, rl_pc,
                   rl_frame, open_calls, close_pc, ninject,
                   accept_calls, rl_error, writers, tx,
                   lock_waiters, rl_local>>

\* The end of MplexStream.reset and MplexStream.close: under streams_lock the
\* multiplexer drops the stream's id from both tables.
stream_remove(e, i) ==
    /\ i \in rm_pending[e]
    /\ streams_lock[e] = "free"
    /\ rm_pending' = [rm_pending EXCEPT ![e] = @ \ {i}]
    /\ streams' = [streams EXCEPT
          ![e] = TableDel(@, objs[e][i].stream_id)]
    /\ streams_msg_channels' = [streams_msg_channels EXCEPT
          ![e] = TableDel(@, objs[e][i].stream_id)]
    /\ UNCHANGED <<next_channel_id, streams_none, streams_lock, objs,
                   new_stream_q, event_shutting_down, event_closed,
                   conn_closed, wire, rl_pc, rl_frame, open_calls, close_pc,
                   nops, ninject,
                   accept_calls, rl_error, writers, tx,
                   lock_waiters, rl_local>>

\* MplexStream.write: refused once the stream is closed locally or reset,
\* otherwise one Message frame carries the whole buffer.
stream_write(e, i, data) ==
    /\ i \in UserStreams(e)
    /\ UserOp
    /\ ~objs[e][i].local_closed
    /\ ~objs[e][i].reset
    /\ \E oc \in WriteOutcomes(e) :
          /\ wire' = send_message(e, TagFor(objs[e][i].stream_id,
                                            MessageInitiator, MessageReceiver),
                                  data, objs[e][i].stream_id, oc)
          /\ objs' = IF oc = "ok"
                     THEN [objs EXCEPT ![e][i].sent = Append(@, data)]
                     ELSE objs
    /\ UNCHANGED <<next_channel_id, streams, streams_none,
                   streams_msg_channels, streams_lock, new_stream_q,
                   event_shutting_down, event_closed, conn_closed, rl_pc,
                   rl_frame, open_calls, close_pc, rm_pending, ninject,
                   accept_calls, rl_error, writers, tx,
                   lock_waiters, rl_local>>

\* ------------------------------------------- the read loop: an unknown flag

\* The last branch of _handle_incoming_message: with streams_lock held, the
\* stream the id names is reset by stream.reset().  reset ends by taking
\* streams_lock, which this task holds: trio.Lock raises RuntimeError, the
\* lock is released on the way out and handle_incoming ends without _cleanup.
\* A stream closed on both sides makes reset return at once.
_handle_unknown_flag(e) ==
    /\ Handles(e, {UnknownFlag})
    /\ LET sid == FrameStreamID(rl_frame[e])
       IN IF sid \notin DOMAIN streams[e]
          THEN /\ BackToRead(e)
               /\ UNCHANGED <<objs, wire>>
          ELSE LET i == streams[e][sid]
               IN IF objs[e][i].local_closed /\ objs[e][i].remote_closed
                  THEN /\ BackToRead(e)
                       /\ UNCHANGED <<objs, wire>>
                  ELSE /\ \E oc \in WriteOutcomes(e) :
                             wire' = send_message(e,
                                 TagFor(sid, ResetInitiator, ResetReceiver),
                                 <<>>, sid, oc)
                       /\ objs' = SetObj(e, i, ResetStreamObj(objs[e][i]))
                       /\ Crash(e)
    /\ SetLock(e, LockRelease(LockOf(e)))
    /\ UNCHANGED <<next_channel_id, streams, streams_none,
                   streams_msg_channels, new_stream_q, event_shutting_down,
                   event_closed, conn_closed, rl_frame, open_calls, close_pc,
                   rm_pending, nops, ninject, accept_calls, rl_error,
                   writers, tx>>

\* ------------------------------------------------------------------ _cleanup

\* A round that writes the reset flag whatever it was: set when the remote
\* side was open, and cleared when it was not.
CleanupStreamObjAssign(s) ==
    [s EXCEPT !.reset = ~s.remote_closed, !.remote_closed = TRUE,
              !.local_closed = TRUE]

\* One round of the loop of _cleanup on stream s.
CleanupStreamObj(s) ==
    IF ~s.remote_closed
    THEN [s EXCEPT !.remote_closed = TRUE, !.reset = TRUE,
                   !.local_closed = TRUE]
    ELSE s

\* The streams the loop of _cleanup has still to visit.  A dict is walked in
\* the order its keys were put in, which is the order the streams were built
\* in: a stream asks for streams_lock in the segment that builds it, and the
\* lock serves in order.  `stream` is the one visited last.
Unvisited(e) ==
    {i \in {streams[e][sid] : sid \in DOMAIN streams[e]} :
        i > rl_local[e].stream}

\* The least of a set of numbers that is not empty.
Least(S) == CHOOSE i \in S : \A j \in S : i <= j

\* One round of the loop of _cleanup, the read loop holding streams_lock: the
\* block under the stream's close_lock, then send_channel.aclose(), which
\* closes the channel and yields.  An id that streams_msg_channels lacks
\* raises KeyError after the flags of its stream were set: the lock is
\* released on the way out and handle_incoming ends.
_cleanup(e) ==
    /\ rl_pc[e] = "cleanup"
    /\ OwnsLock(e, ReadLoopTask)
    /\ Unvisited(e) # {}
    /\ LET i == Least(Unvisited(e))
           sid == objs[e][i].stream_id
           flagged == [objs[e] EXCEPT ![i] = CleanupStreamObj(@)]
       IN IF sid \notin DOMAIN streams_msg_channels[e]
          THEN /\ objs' = [objs EXCEPT ![e] = flagged]
               /\ Crash(e)
               /\ SetLock(e, LockRelease(LockOf(e)))
          ELSE /\ objs' = [objs EXCEPT ![e] =
                     [flagged EXCEPT
                        ![streams_msg_channels[e][sid]].send_closed = TRUE]]
               /\ rl_local' = [rl_local EXCEPT ![e] =
                     [stream |-> i,
                      send_channel |-> streams_msg_channels[e][sid]]]
               /\ UNCHANGED <<rl_pc, streams_lock, lock_waiters>>
    /\ UNCHANGED <<next_channel_id, streams, streams_none,
                   streams_msg_channels, new_stream_q, event_shutting_down,
                   event_closed, conn_closed, wire, rl_frame, open_calls,
                   close_pc, rm_pending, nops, ninject, accept_calls,
                   rl_error, writers, tx>>

\* _cleanup after its loop, up to the yield of
\* new_stream_send_channel.aclose(): self.streams becomes None
\* (streams_msg_channels keeps its keys), the lock is released, event_closed
\* is set and the send end of the accept queue is closed, which wakes a task
\* that waits in accept_stream with EndOfChannel.
_cleanup_close(e) ==
    /\ rl_pc[e] = "cleanup"
    /\ OwnsLock(e, ReadLoopTask)
    /\ Unvisited(e) = {}
    /\ streams' = [streams EXCEPT ![e] = EmptyTable]
    /\ streams_none' = [streams_none EXCEPT ![e] = TRUE]
    /\ SetLock(e, LockRelease(LockOf(e)))
    /\ event_closed' = [event_closed EXCEPT ![e] = TRUE]
    /\ new_stream_q' = [new_stream_q EXCEPT ![e].send_closed = TRUE]
    /\ accept_calls' = [accept_calls EXCEPT ![e] =
          IF @.pc = "waiting" THEN AcceptFails(@) ELSE @]
    /\ rl_pc' = [rl_pc EXCEPT ![e] = "cleanup_recv"]
    /\ rl_local' = [rl_local EXCEPT ![e] = NoLocals]
    /\ rl_error' = [rl_error EXCEPT ![e] = "none"]
    /\ UNCHANGED <<next_channel_id, streams_msg_channels, objs,
                   event_shutting_down, conn_closed, wire, rl_frame,
                   open_calls, close_pc, rm_pending, nops, ninject,
                   writers, tx>>

\* The last line of _cleanup: new_stream_receive_channel.aclose().  With the
\* last receive end closed the channel drops what its buffer holds.
_cleanup_finish(e) ==
    /\ rl_pc[e] = "cleanup_recv"
    /\ new_stream_q' = [new_stream_q EXCEPT ![e].recv_closed = TRUE,
                                            ![e].items = <<>>]
    /\ rl_pc' = [rl_pc EXCEPT ![e] = "done"]
    /\ UNCHANGED <<next_channel_id, streams, streams_none,
                   streams_msg_channels, streams_lock, lock_waiters, objs,
                   event_shutting_down, event_closed, conn_closed, wire,
                   rl_frame, rl_local, open_calls, close_pc, rm_pending,
                   nops, ninject, accept_calls, rl_error, writers, tx>>

\* ------------------------------------------------------- a misbehaving peer

\* Bytes reach endpoint e that its peer's multiplexer would not send.
Inject(e, f) ==
    /\ ninject < MaxInject
    /\ UserOp
    /\ rl_pc[e] \notin {"cleanup", "cleanup_recv", "done", "crashed"}
    /\ ~conn_closed[e]
    /\ ~conn_closed[Peer(e)]
    /\ ninject' = ninject + 1
    /\ wire' = [wire EXCEPT ![e] = Append(@, f)]
    /\ UNCHANGED <<next_channel_id, streams, streams_none,
                   streams_msg_channels, streams_lock, objs, new_stream_q,
                   event_shutting_down, event_closed, conn_closed, rl_pc,
                   rl_frame, open_calls, close_pc, rm_pending,
                   accept_calls, rl_error, writers, tx,
                   lock_waiters, rl_local>>

\* ------------------------------------------------------------ specification

Next ==
    \/ \E e \in E : open_stream_begin(e)
    \/ \E e \in E : \E k \in DOMAIN open_calls[e] : open_stream_finish(e, k)
    \/ \E e \in E : \E t \in Closers : close_begin(e, t)
    \/ \E e \in E : \E t \in Closers : close_return(e, t)
    \/ \E e \in E : accept_stream(e)
    \/ \E e \in E : read_message(e)
    \/ \E e \in E : _handle_new_stream(e)
    \/ \E e \in E : _handle_new_stream_send(e)
    \/ \E e \in E : _handle_message(e)
    \/ \E e \in E : _handle_message_send(e)
    \/ \E e \in E : _handle_close(e)
    \/ \E e \in E : _handle_close_test(e)
    \/ \E e \in E : _handle_close_set(e)
    \/ \E e \in E : _handle_close_del(e)
    \/ \E e \in E : _handle_reset(e)
    \/ \E e \in E : _handle_reset_flags(e)
    \/ \E e \in E : _handle_reset_del(e)
    \/ \E e \in E : _handle_unknown_flag(e)
    \/ \E e \in E : _cleanup(e)
    \/ \E e \in E : _cleanup_close(e)
    \/ \E e \in E : _cleanup_finish(e)
    \/ \E e \in E : \E i \in DOMAIN objs[e] : stream_reset(e, i)
    \/ \E e \in E : \E i \in DOMAIN objs[e] : stream_close(e, i)
    \/ \E e \in E : \E i \in DOMAIN objs[e] : stream_remove(e, i)
    \/ \E e \in E : \E i \in DOMAIN objs[e] : \E d \in Payloads :
          stream_write(e, i, d)
    \/ \E e \in E : \E f \in InjectFrames : Inject(e, f)

Spec == Init /\ [][Next]_vars

\* ---------------------------------------- tasks that emit frames concurrently

WriterTasks == 1..MaxWriters

\* The tasks work on distinct streams; the last has an id whose header takes
\* two bytes.
WriterChannel(t) == IF t = MaxWriters THEN 16 ELSE t - 1

\* What a task emits for its stream: the frame of open_stream, of write, of
\* close or of reset.
WriterFrames(t) ==
    {[channel_id |-> WriterChannel(t), flag |-> NewStream,
      data |-> DecimalBytes(WriterChannel(t))]}
    \cup {[channel_id |-> WriterChannel(t), flag |-> MessageInitiator,
            data |-> d] : d \in Payloads}
    \cup {[channel_id |-> WriterChannel(t), flag |-> f, data |-> <<>>] :
            f \in {CloseInitiator, ResetInitiator}}

\* Every task has called send_message and none has written yet.
WritersInit ==
    /\ MuxInit
    /\ \E fs \in [WriterTasks -> UNION {WriterFrames(t) : t \in WriterTasks}] :
          /\ \A t \in WriterTasks : fs[t] \in WriterFrames(t)
          /\ writers = [t \in WriterTasks |-> [frame |-> fs[t], written |-> 0]]
    /\ tx = <<>>

\* The write calls task t makes in all.
CallsOf(t) ==
    WriteCalls(writers[t].frame.channel_id, writers[t].frame.flag,
               writers[t].frame.data)

\* write_to_stream: task t makes its next call of secured_conn.write, which
\* appends the bytes it is given to what the connection carries.
write_to_stream(t) ==
    /\ writers[t].written < Len(CallsOf(t))
    /\ tx' = tx \o CallsOf(t)[writers[t].written + 1]
    /\ writers' = [writers EXCEPT ![t].written = @ + 1]
    /\ UNCHANGED <<next_channel_id, streams, streams_none,
                   streams_msg_channels, streams_lock, objs, new_stream_q,
                   event_shutting_down, event_closed, conn_closed, wire,
                   rl_pc, rl_frame, open_calls, close_pc, rm_pending, nops,
                   ninject, accept_calls, rl_error,
                   lock_waiters, rl_local>>

WritersNext == \E t \in DOMAIN writers : write_to_stream(t)

WritersSpec == WritersInit /\ [][WritersNext]_vars


\* --------------------------------------------------------------- properties

\* Object i of endpoint e is what a table of e holds under the object's id.
InStreams(e, i) ==
    /\ objs[e][i].stream_id \in DOMAIN streams[e]
    /\ streams[e][objs[e][i].stream_id] = i

InMsgChannels(e, i) ==
    /\ objs[e][i].stream_id \in DOMAIN streams_msg_channels[e]
    /\ streams_msg_channels[e][objs[e][i].stream_id] = i

\* The read loop of e takes the step that handles the frame it holds, the
\* frame carrying one of `flags` and naming a stream of the table.
HandlesFrameOfStream(e, flags) ==
    /\ rl_pc[e] = "handle"
    /\ rl_frame[e].flag \in flags
    /\ FrameStreamID(rl_frame[e]) \in DOMAIN streams[e]
    /\ rl_pc'[e] # "handle"

\* The object the frame held by the read loop of e names.
FrameObj(e) == streams[e][FrameStreamID(rl_frame[e])]

\* The positions of the read loop inside a handler.
HandlerPcs ==
    {"handle", "new_stream_init", "message_test", "close_test", "close_set",
     "close_del", "reset_flags", "reset_del"}

\* The step by which the handler of the frame the read loop of e holds ends,
\* the frame carrying one of `flags`: the handler returns or raises.
HandlerEnds(e, flags) ==
    /\ rl_pc[e] \in HandlerPcs
    /\ rl_frame[e].flag \in flags
    /\ rl_pc'[e] \notin HandlerPcs

\* The stream the handler looked up in the table, when it found one.
HandlerStream(e) == rl_local[e].stream

\* A step of the handler of the frame the read loop of e holds, the frame
\* carrying one of `flags`.
HandlerStep(e, flags) ==
    /\ rl_pc[e] \in HandlerPcs
    /\ rl_frame[e].flag \in flags
    /\ rl_pc'[e] # rl_pc[e]

\* The stream that handler works on: the one the table holds under the id of
\* the frame when the handler looks it up, and the one it found from then on;
\* 0 when there is none.
HandlerTarget(e) ==
    IF rl_pc[e] # "handle" THEN HandlerStream(e)
    ELSE IF FrameStreamID(rl_frame[e]) \in DOMAIN streams[e] THEN FrameObj(e)
    ELSE 0

\* C1: once the read loop has processed the Reset frame of a stream its peer
\* reset, the stream's reset flag is set on this end as it is on the end that
\* called reset(), and the id is in neither table.
C1_ResetReachesBothEnds ==
    [][\A e \in E :
          ( /\ HandlerEnds(e, {ResetInitiator, ResetReceiver})
            /\ HandlerStream(e) # 0 ) =>
             /\ objs'[e][HandlerStream(e)].reset
             /\ FrameStreamID(rl_frame[e]) \notin DOMAIN streams'[e]
             /\ FrameStreamID(rl_frame[e]) \notin
                   DOMAIN streams_msg_channels'[e]
             /\ \A j \in DOMAIN objs[Peer(e)] :
                   objs[Peer(e)][j].recv_closed => objs'[Peer(e)][j].reset
      ]_vars

\* C2: while nobody holds streams_lock, streams and streams_msg_channels
\* have the same keys.
C2_TablesHaveSameKeys ==
    \A e \in E :
       streams_lock[e] = "free" =>
          DOMAIN streams[e] = DOMAIN streams_msg_channels[e]

\* C3: a stream closed on both sides and not reset, its removal not pending,
\* is in neither table of its endpoint.
C3_FullyClosedLeavesBothTables ==
    \A e \in E : \A i \in DOMAIN objs[e] :
       ( /\ objs[e][i].local_closed
         /\ objs[e][i].remote_closed
         /\ ~objs[e][i].reset
         /\ i \notin rm_pending[e]
         /\ streams_lock[e] = "free" )
       => (~InStreams(e, i) /\ ~InMsgChannels(e, i))

\* C4: a call of close() that has returned finds is_closed() true.
C4_CloseReturnsClosed ==
    \A e \in E : \A t \in Closers :
       close_pc[e][t] = "done" => is_closed(e)

\* C5: once event_closed is set, this endpoint has closed the secured
\* connection.
C5_ClosedMeansTransportClosed ==
    \A e \in E : event_closed[e] => conn_closed[e]

\* C6: every stream that _cleanup finds in the table has its reset flag set
\* when the multiplexer is closed.
C6_CleanupResetsEveryStream ==
    [][\A e \in E :
          (rl_pc[e] = "cleanup" /\ event_closed'[e]) =>
             \A sid \in DOMAIN streams[e] : objs'[e][streams[e][sid]].reset
      ]_vars

\* C7: a frame with the unknown flag that names a stream of the table resets
\* that stream only: the read loop goes on to the next frame, no other stream
\* changes and the connection is not shut down.
C7_UnknownFlagResetsOneStream ==
    [][\A e \in E :
          HandlesFrameOfStream(e, {UnknownFlag}) =>
             /\ rl_pc'[e] = "read"
             /\ objs'[e][FrameObj(e)].reset
             /\ \A j \in DOMAIN objs[e] :
                   j # FrameObj(e) => objs'[e][j] = objs[e][j]
             /\ event_shutting_down'[e] = event_shutting_down[e]
      ]_vars

\* C8: a read loop that has stopped, whatever stopped it, has run _cleanup:
\* event_closed is set and the inbox of every stream is closed.
C8_StoppedLoopHasCleanedUp ==
    \A e \in E :
       rl_pc[e] \in {"done", "crashed"} =>
          /\ event_closed[e]
          /\ \A i \in DOMAIN objs[e] :
                InMsgChannels(e, i) => objs[e][i].send_closed

\* C9: close() returns only after the transport was closed, the read loop
\* left its loop, _cleanup ran and event_closed was set; and a caller that
\* waits is not left with a read loop that died without _cleanup.
C9_ShutdownOrder ==
    \A e \in E : \A t \in Closers :
       /\ close_pc[e][t] = "done" =>
             /\ conn_closed[e]
             /\ rl_pc[e] \in {"cleanup_recv", "done"}
             /\ event_closed[e]
       /\ close_pc[e][t] = "wait" => rl_pc[e] # "crashed"

\* C10: an open_stream call made while the multiplexer is shutting down or
\* closed, or one that does not succeed, ends with MplexUnavailable.
C10_OpenFailsUnavailable ==
    \A e \in E : \A k \in DOMAIN open_calls[e] :
       ( /\ open_calls[e][k].result # "pending"
         /\ (open_calls[e][k].shutting_down \/ open_calls[e][k].result # "ok") )
       => open_calls[e][k].result = "MplexUnavailable"

\* ----------------------------------------------------------------- fairness

\* The one step the task of handle_incoming can take.
ReadLoop(e) ==
    \/ read_message(e)
    \/ _handle_new_stream(e)
    \/ _handle_new_stream_send(e)
    \/ _handle_message(e)
    \/ _handle_message_send(e)
    \/ _handle_close(e)
    \/ _handle_close_test(e)
    \/ _handle_close_set(e)
    \/ _handle_close_del(e)
    \/ _handle_reset(e)
    \/ _handle_reset_flags(e)
    \/ _handle_reset_del(e)
    \/ _handle_unknown_flag(e)
    \/ _cleanup(e)
    \/ _cleanup_close(e)
    \/ _cleanup_finish(e)

\* The step an open_stream call that holds streams_lock can take.
OpenStreamTask(e) == \E k \in DOMAIN open_calls[e] : open_stream_finish(e, k)

\* trio runs every task that can run: a read loop that has a step to take
\* takes it, and so does an open_stream call that was given streams_lock.
\* Users call when they like.
FairSpec ==
    Spec /\ \A e \in E : WF_vars(ReadLoop(e)) /\ WF_vars(OpenStreamTask(e))

\* C11: an accept_stream call that waits on the empty accept queue of a
\* multiplexer that is shutting down does not wait for ever, and a call made
\* once the shutdown is over fails with MplexUnavailable.
C11_BlockedAcceptEnds ==
    /\ \A e \in E :
          (accept_calls[e].pc = "waiting" /\ event_shutting_down[e])
             ~> (accept_calls[e].pc # "waiting")
    /\ [][\A e \in E :
            ( /\ rl_pc[e] = "done"
              /\ accept_calls[e].pc = "idle"
              /\ accept_calls'[e] # accept_calls[e] )
            => accept_calls'[e].pc = "failed"
        ]_vars

\* C12: once event_closed is set, both ends of the accept queue are closed.
C12_ClosedMeansQueueClosed ==
    \A e \in E :
       is_closed(e) =>
          new_stream_q[e].send_closed /\ new_stream_q[e].recv_closed

\* C13: a NewStream frame whose id is in the table ends the connection: the
\* step that handles it creates no stream, queues nothing and sends the read
\* loop into _cleanup, and when that _cleanup has run is_closed() is true and
\* every stream of the table has its reset flag set.
C13_DuplicateNewStreamIsTerminal ==
    [][\A e \in E :
          /\ HandlesFrameOfStream(e, {NewStream}) =>
                /\ rl_pc'[e] = "cleanup"
                /\ objs'[e] = objs[e]
                /\ streams'[e] = streams[e]
                /\ streams_msg_channels'[e] = streams_msg_channels[e]
                /\ new_stream_q'[e] = new_stream_q[e]
                /\ accept_calls'[e] = accept_calls[e]
          /\ ( /\ rl_pc[e] = "cleanup"
               /\ rl_error[e] = "existing stream"
               /\ rl_pc'[e] # "cleanup" ) =>
                /\ event_closed'[e]
                /\ \A sid \in DOMAIN streams[e] :
                      objs'[e][streams[e][sid]].reset
      ]_vars

\* The tasks that have made every write call of their frame, and those that
\* have made some and not all.
WritersDone == {t \in DOMAIN writers : writers[t].written = Len(CallsOf(t))}

WritersMidFrame ==
    {t \in DOMAIN writers :
        writers[t].written > 0 /\ writers[t].written < Len(CallsOf(t))}

\* C14: whenever no task is in the middle of its frame, the bytes given to the
\* secured connection read back as whole frames, header, length and payload,
\* one for each task that has written and no other.
C14_FramesAreWhole ==
    WritersMidFrame = {} =>
       LET r == ReadFrames(tx)
       IN /\ r.ok
          /\ Len(r.frames) = Cardinality(WritersDone)
          /\ {r.frames[k] : k \in DOMAIN r.frames} =
                {Frame(writers[t].frame.channel_id, writers[t].frame.flag,
                       writers[t].frame.data) : t \in WritersDone}

\* Every task has written, and the task of the two-byte header was not last.
C14_Witness ==
    /\ writers # <<>>
    /\ WritersDone = WriterTasks
    /\ HeaderChannel(ReadFrames(tx).frames[1].header) = WriterChannel(MaxWriters)

\* A stream one side of which is closed, and which is not reset.
HalfClosed(s) == (s.local_closed # s.remote_closed) /\ ~s.reset

\* No other stream of e was ever given the id of stream i: the peer did not
\* send NewStream for the id again after the id had left the table.
IdUsedOnce(e, i) ==
    \A k \in DOMAIN objs[e] :
       objs[e][k].stream_id = objs[e][i].stream_id => k = i

\* C15: closing one direction leaves the other in use.  While the multiplexer
\* is up a half-closed stream, its id used for no other stream, is in both
\* tables.  The steps that handle the peer's Close on a stream that is open
\* locally close the sending end of its inbox and set remote_closed and
\* change nothing else of the stream: what the inbox holds stays, the stream
\* stays open locally and in both tables, and the read loop goes on.  And a
\* Message frame for a stream that is closed locally only is put in its
\* inbox.
C15_HalfCloseKeepsOtherDirection ==
    /\ [](\A e \in E : \A i \in DOMAIN objs[e] :
            ( /\ objs[e][i].in_table
              /\ HalfClosed(objs[e][i])
              /\ IdUsedOnce(e, i)
              /\ i \notin rm_pending[e]
              /\ ~streams_none[e] )
            => (InStreams(e, i) /\ InMsgChannels(e, i)))
    /\ [][\A e \in E :
            /\ ( /\ HandlerStep(e, {CloseInitiator, CloseReceiver})
                 /\ HandlerTarget(e) # 0
                 /\ ~objs[e][HandlerTarget(e)].local_closed ) =>
                  /\ objs'[e][HandlerTarget(e)] =
                        [objs[e][HandlerTarget(e)] EXCEPT
                           !.send_closed = TRUE,
                           !.remote_closed =
                              IF rl_pc[e] = "close_set" THEN TRUE ELSE @]
                  /\ streams'[e] = streams[e]
                  /\ streams_msg_channels'[e] = streams_msg_channels[e]
                  /\ rl_pc'[e] \in HandlerPcs \cup {"read"}
                  /\ rl_pc'[e] = "read" =>
                        objs'[e][HandlerTarget(e)].remote_closed
            /\ ( /\ rl_pc[e] = "message_test"
                 /\ rl_pc'[e] # "message_test"
                 /\ objs[e][HandlerStream(e)].local_closed
                 /\ HalfClosed(objs[e][HandlerStream(e)]) ) =>
                  /\ objs'[e][HandlerStream(e)].inbox =
                        Append(objs[e][HandlerStream(e)].inbox,
                               rl_frame[e].message)
                  /\ rl_pc'[e] = "read"
        ]_vars

\* A closed its stream after writing; B has handled the Close, holds what A
\* wrote, has the stream in both tables and has written; A holds what B
\* wrote.
C15_Witness ==
    \E i \in DOMAIN objs["A"] : \E j \in DOMAIN objs["B"] :
       /\ objs["A"][i].stream_id = StreamID(0, TRUE)
       /\ objs["B"][j].stream_id = StreamID(0, FALSE)
       /\ objs["A"][i].local_closed /\ ~objs["A"][i].remote_closed
       /\ objs["B"][j].remote_closed /\ ~objs["B"][j].local_closed
       /\ objs["A"][i].sent # <<>>
       /\ objs["B"][j].inbox = objs["A"][i].sent
       /\ objs["B"][j].sent # <<>>
       /\ objs["A"][i].inbox = objs["B"][j].sent
       /\ InStreams("B", j) /\ InMsgChannels("B", j)
       /\ InStreams("A", i) /\ InMsgChannels("A", i)

\* s is a sequence that t begins with.
IsPrefix(s, t) == Len(s) <= Len(t) /\ SubSeq(t, 1, Len(s)) = s

\* The id under which the peer holds the stream that has id sid here.
MirrorID(sid) == StreamID(sid.channel_id, ~sid.is_initiator)

\* Stream s has its peer's Close or Reset frame behind it: the read loop set
\* remote_closed, not a reset() of this side and not _cleanup, which the read
\* loop has not entered.
PeerEndSeen(e, s) ==
    /\ s.remote_closed
    /\ ~s.recv_closed
    /\ s.reset => rl_pc[e] \notin {"cleanup", "cleanup_recv", "done"}

\* C16: with a peer that sends what its multiplexer emits and no more, the
\* inbox of a stream holds, in order, the first of the payloads the peer
\* wrote to the stream, and all of them once the peer's Close or Reset frame
\* is handled.
C16_InboxIsWhatPeerSent ==
    ninject = 0 =>
       \A e \in E : \A i \in DOMAIN objs[e] : \A j \in DOMAIN objs[Peer(e)] :
          objs[Peer(e)][j].stream_id = MirrorID(objs[e][i].stream_id) =>
             /\ IsPrefix(objs[e][i].inbox, objs[Peer(e)][j].sent)
             /\ PeerEndSeen(e, objs[e][i]) =>
                   objs[e][i].inbox = objs[Peer(e)][j].sent

\* B holds the two different payloads A wrote before its Close, which B has
\* handled.
C16_Witness ==
    \E i \in DOMAIN objs["B"] : \E j \in DOMAIN objs["A"] :
       /\ ninject = 0
       /\ objs["A"][j].stream_id = MirrorID(objs["B"][i].stream_id)
       /\ PeerEndSeen("B", objs["B"][i])
       /\ Len(objs["B"][i].inbox) = 2
       /\ objs["B"][i].inbox[1] # objs["B"][i].inbox[2]
       /\ objs["B"][i].inbox = objs["A"][j].sent

\* The streams of e that its peer opened, in the order e built them.
PeerOpened(e) ==
    SelectSeq([n \in 1..Len(objs[e]) |-> n],
              LAMBDA n : ~objs[e][n].stream_id.is_initiator)

\* Those of them the table of e gained, in that order.
TableGained(e) ==
    SelectSeq(PeerOpened(e), LAMBDA n : objs[e][n].in_table)

\* The streams accept_stream has returned at e, then those it will find in
\* the queue.
HandedOver(e) == accept_calls[e].got \o new_stream_q[e].items

\* The open_stream calls of e that returned a stream.
OpenedOk(e) == {k \in DOMAIN open_calls[e] : open_calls[e][k].result = "ok"}

\* Nothing is on its way to e and the connection is up.
Quiet(e) ==
    /\ wire[e] = <<>>
    /\ rl_pc[e] = "read"
    /\ ~conn_closed[e]
    /\ ~conn_closed[Peer(e)]

\* C17: when the peer opens its streams one call after the other and only its
\* multiplexer sends, the streams built here have, the n-th, channel id n - 1
\* and that number in decimal as its name; all of them are in the table from
\* the segment that built them on but the last, while the read loop waits for
\* the lock in _initialize_stream; the streams the table gained are, in
\* order and each once, those accept_stream returned and, as long as the
\* receive end of the queue is open, those it will find in the queue; and
\* once nothing is on its way there are as many of them as open_stream calls
\* that returned.
C17_AcceptsInOpenOrder ==
    \A e \in E :
       ( /\ ninject = 0
         /\ \A k \in DOMAIN open_calls[Peer(e)] :
               ~open_calls[Peer(e)][k].overlapped )
       => /\ IsPrefix(accept_calls[e].got, TableGained(e))
          /\ ~new_stream_q[e].recv_closed =>
                HandedOver(e) = TableGained(e)
          /\ \A n \in DOMAIN PeerOpened(e) :
                LET s == objs[e][PeerOpened(e)[n]]
                IN /\ s.stream_id = StreamID(n - 1, FALSE)
                   /\ s.name = DecimalBytes(n - 1)
                   /\ ~s.in_table =>
                         /\ n = Len(PeerOpened(e))
                         /\ rl_pc[e] = "new_stream_init"
                         /\ rl_local[e].stream = PeerOpened(e)[n]
          /\ Len(PeerOpened(e)) <= Cardinality(DOMAIN open_calls[Peer(e)])
          /\ Quiet(e) =>
                Len(TableGained(e)) = Cardinality(OpenedOk(Peer(e)))

\* A opened two streams one after the other and accept_stream of B has
\* returned both, "0" before "1".
C17_Witness ==
    /\ ninject = 0
    /\ Len(open_calls["A"]) = 2
    /\ \A k \in DOMAIN open_calls["A"] : ~open_calls["A"][k].overlapped
    /\ Len(accept_calls["B"].got) = 2
    /\ objs["B"][accept_calls["B"].got[1]].name = DecimalBytes(0)
    /\ objs["B"][accept_calls["B"].got[2]].name = DecimalBytes(1)

\* C18: next_channel_id counts the open_stream calls made and never goes
\* down; the k-th call, whatever calls it overlaps, gets channel id k - 1 for
\* its stream, and the NewStream frame it emits carries that id.
C18_ChannelIdsNeverReused ==
    /\ [](\A e \in E :
            /\ next_channel_id[e] = Len(open_calls[e])
            /\ \A k \in DOMAIN open_calls[e] :
                  /\ open_calls[e][k].channel_id = k - 1
                  /\ objs[e][open_calls[e][k].obj].stream_id =
                        StreamID(k - 1, TRUE))
    /\ [][\A e \in E :
            /\ next_channel_id'[e] >= next_channel_id[e]
            /\ \A k \in DOMAIN open_calls[e] :
                  ( /\ open_calls[e][k].result = "pending"
                    /\ open_calls'[e][k].result = "ok"
                    /\ ~conn_closed[Peer(e)] )
                  => wire'[Peer(e)] =
                        Append(wire[Peer(e)],
                               Frame(k - 1, NewStream, DecimalBytes(k - 1)))
        ]_vars

\* Two open_stream calls of A overlapped and the second emitted its frame
\* first: the frames carry ids 1 and 0 and the counter is 2.
C18_Witness ==
    /\ next_channel_id["A"] = 2
    /\ Len(open_calls["A"]) = 2
    /\ open_calls["A"][2].overlapped
    /\ \A k \in DOMAIN open_calls["A"] : open_calls["A"][k].result = "ok"
    /\ wire["B"] = <<Frame(1, NewStream, DecimalBytes(1)),
                     Frame(0, NewStream, DecimalBytes(0))>>

\* C19: the inbox of a stream whose remote_closed is set never changes again;
\* and a step of _handle_message on a stream whose remote_closed is set
\* changes no stream, no table and no shutdown flag and ends no connection:
\* the lookup goes on to the test of remote_closed, and the test sends the
\* read loop on to the next frame.
C19_NoPayloadAfterRemoteClose ==
    [][\A e \in E :
          /\ \A i \in DOMAIN objs[e] :
                objs[e][i].remote_closed =>
                   objs'[e][i].inbox = objs[e][i].inbox
          /\ ( /\ HandlerStep(e, {MessageInitiator, MessageReceiver})
               /\ HandlerTarget(e) # 0
               /\ objs[e][HandlerTarget(e)].remote_closed ) =>
                /\ rl_pc'[e] = IF rl_pc[e] = "handle" THEN "message_test"
                               ELSE "read"
                /\ objs'[e] = objs[e]
                /\ streams'[e] = streams[e]
                /\ streams_msg_channels'[e] = streams_msg_channels[e]
                /\ new_stream_q'[e] = new_stream_q[e]
                /\ event_shutting_down'[e] = event_shutting_down[e]
                /\ event_closed'[e] = event_closed[e]
                /\ conn_closed'[e] = conn_closed[e]
      ]_vars

\* B handled the Close of a stream A opened and then a Message frame for it:
\* the stream is in the table, closed by the peer only, its inbox empty, and
\* the read loop waits for the next frame.
C19_Witness ==
    \E i \in DOMAIN objs["B"] :
       /\ InStreams("B", i)
       /\ objs["B"][i].remote_closed
       /\ ~objs["B"][i].reset
       /\ ~objs["B"][i].local_closed
       /\ objs["B"][i].inbox = <<>>
       /\ rl_pc["B"] = "read"
       /\ rl_frame["B"].flag = MessageInitiator
       /\ FrameStreamID(rl_frame["B"]) = objs["B"][i].stream_id
       /\ ~event_shutting_down["B"]

\* C20: the handler of a Message, Close or Reset frame whose id is not in the
\* table is one step, which releases streams_lock and sends the read loop on
\* to its next read: no table, stream, queue or flag changes and no frame is
\* written.
C20_UnknownIdIsDropped ==
    [][\A e \in E :
          ( /\ HandlerStep(e, HeaderTags \ {NewStream})
            /\ rl_pc[e] = "handle"
            /\ FrameStreamID(rl_frame[e]) \notin DOMAIN streams[e] ) =>
             /\ rl_pc'[e] = "read"
             /\ streams_lock'[e] = LockRelease(LockOf(e)).owner
             /\ UNCHANGED <<streams, streams_none, streams_msg_channels,
                            objs, new_stream_q, accept_calls,
                            event_shutting_down, event_closed, conn_closed,
                            wire>>
      ]_vars

\* B has handled a Message frame for an id it never had a stream for, and
\* waits for the next frame with nothing shut down.
C20_Witness ==
    /\ rl_pc["B"] = "read"
    /\ rl_frame["B"].flag = MessageInitiator
    /\ \A i \in DOMAIN objs["B"] :
          objs["B"][i].stream_id # FrameStreamID(rl_frame["B"])
    /\ ~event_shutting_down["B"]
    /\ ~streams_none["B"]

\* The streams of e that open_stream of e made.
LocallyOpened(e) == {open_calls[e][k].obj : k \in DOMAIN open_calls[e]}

\* The flags a sender uses on a stream it did not open.
ReceiverFlags == {MessageReceiver, CloseReceiver, ResetReceiver}

\* The key of the stream a frame of channel c and flag f is for.
RoutedKey(c, f) == StreamID(c, f \in ReceiverFlags)

\* Table t of e is the same before and after the step at every key but key.
SameButAt(t, e, key) ==
    /\ DOMAIN t'[e] \ {key} = DOMAIN t[e] \ {key}
    /\ \A sid \in DOMAIN t[e] \ {key} : t'[e][sid] = t[e][sid]

\* C21: the streams with is_initiator set are those open_stream made.  A
\* step of the handler of a frame of channel c and flag f in 1..6 changes no
\* stream but the one the handler found in the tables under (c, f odd), which
\* is a stream open_stream made when f is 1, 3 or 5 and one the peer opened
\* when f is 2, 4 or 6, changes no other key of the tables and creates no
\* stream.  A step of the handler of NewStream changes no stream but the one
\* it built, builds at most one, of key (c, False), and puts nothing in the
\* tables but that stream under that key.  And when only the peer's
\* multiplexer sends, a stream on which the read loop saw the peer's Close or
\* Reset is one whose stream on the peer's side, of the same channel and the
\* other role, was closed there.
C21_FramesReachTheirStreamOnly ==
    /\ [](\A e \in E : \A i \in DOMAIN objs[e] :
            /\ objs[e][i].stream_id.is_initiator <=> i \in LocallyOpened(e)
            /\ (ninject = 0 /\ PeerEndSeen(e, objs[e][i])) =>
                  \E j \in DOMAIN objs[Peer(e)] :
                     /\ objs[Peer(e)][j].stream_id =
                           MirrorID(objs[e][i].stream_id)
                     /\ objs[Peer(e)][j].local_closed)
    /\ [][\A e \in E :
            LET c == rl_frame[e].channel_id
                f == rl_frame[e].flag
                key == RoutedKey(c, f)
                t == HandlerTarget(e)
            IN /\ HandlerStep(e, HeaderTags \ {NewStream}) =>
                     /\ Len(objs'[e]) = Len(objs[e])
                     /\ \A j \in DOMAIN objs[e] :
                           objs'[e][j] # objs[e][j] => j = t
                     /\ t # 0 =>
                           /\ objs[e][t].stream_id = key
                           /\ t \in LocallyOpened(e) <=> f \in ReceiverFlags
                           /\ rl_pc[e] = "handle" =>
                                 InStreams(e, t) /\ InMsgChannels(e, t)
                     /\ SameButAt(streams, e, key)
                     /\ SameButAt(streams_msg_channels, e, key)
                     /\ key \in DOMAIN streams'[e] =>
                           key \in DOMAIN streams[e]
                     /\ key \in DOMAIN streams_msg_channels'[e] =>
                           key \in DOMAIN streams_msg_channels[e]
                     /\ new_stream_q'[e] = new_stream_q[e]
               /\ HandlerStep(e, {NewStream}) =>
                     /\ SameButAt(streams, e, StreamID(c, FALSE))
                     /\ SameButAt(streams_msg_channels, e, StreamID(c, FALSE))
                     /\ \A j \in DOMAIN objs[e] :
                           objs'[e][j] # objs[e][j] =>
                              /\ rl_pc[e] = "new_stream_init"
                              /\ j = t
                              /\ objs[e][j].stream_id = StreamID(c, FALSE)
                              /\ streams'[e][StreamID(c, FALSE)] = j
                              /\ streams_msg_channels'[e][StreamID(c, FALSE)]
                                    = j
                     /\ Len(objs'[e]) # Len(objs[e]) =>
                           /\ rl_pc[e] = "handle"
                           /\ Len(objs'[e]) = Len(objs[e]) + 1
                           /\ objs'[e][Len(objs'[e])].stream_id =
                                 StreamID(c, FALSE)
                           /\ streams'[e] = streams[e]
                           /\ streams_msg_channels'[e] =
                                 streams_msg_channels[e]
        ]_vars

\* B holds a stream it opened and one A opened, both of channel 0 and both in
\* the tables.  A wrote to its stream and closed it, and B has handled both
\* frames: the stream A opened has the payload and the peer's close, the one
\* B opened has neither.
C21_Witness ==
    \E i \in DOMAIN objs["B"] : \E j \in DOMAIN objs["B"] :
       /\ objs["B"][i].stream_id = StreamID(0, TRUE)
       /\ objs["B"][j].stream_id = StreamID(0, FALSE)
       /\ InStreams("B", i) /\ InMsgChannels("B", i)
       /\ InStreams("B", j) /\ InMsgChannels("B", j)
       /\ Len(objs["B"][j].inbox) = 1
       /\ objs["B"][j].remote_closed
       /\ objs["B"][i].inbox = <<>>
       /\ ~objs["B"][i].remote_closed /\ ~objs["B"][i].send_closed
       /\ rl_pc["B"] = "read"
       /\ rl_frame["B"].flag = CloseInitiator

\* C22: in every step a stream that exists stays, and each of its
\* local_closed, remote_closed and reset flags that is set stays set; and
\* each of event_shutting_down and event_closed of a multiplexer that is set
\* stays set.
C22_CloseFlagsOnlyGetSet ==
    [][\A e \in E :
          /\ event_shutting_down[e] => event_shutting_down'[e]
          /\ event_closed[e] => event_closed'[e]
          /\ \A i \in DOMAIN objs[e] :
                /\ i \in DOMAIN objs'[e]
                /\ objs[e][i].local_closed => objs'[e][i].local_closed
                /\ objs[e][i].remote_closed => objs'[e][i].remote_closed
                /\ objs[e][i].reset => objs'[e][i].reset
      ]_vars

\* B reset a stream A had opened and then called close() twice; its read loop
\* ran _cleanup with the stream still in the table and has ended.  The stream
\* has its three flags and the multiplexer its two.
C22_Witness ==
    \E i \in DOMAIN objs["B"] :
       /\ objs["B"][i].recv_closed /\ objs["B"][i].send_closed
       /\ objs["B"][i].local_closed
       /\ objs["B"][i].remote_closed
       /\ objs["B"][i].reset
       /\ \A t \in Closers : close_pc["B"][t] # "idle"
       /\ event_shutting_down["B"] /\ event_closed["B"]
       /\ streams_none["B"]
       /\ rl_pc["B"] = "done"

\* C23: a stream whose reset flag is set has local_closed and remote_closed
\* set.  Every step runs the blocks it has under a close_lock whole, so the
\* lock of every stream is free in every state.
C23_ResetMeansBothClosed ==
    \A e \in E : \A i \in DOMAIN objs[e] :
       objs[e][i].reset =>
          objs[e][i].local_closed /\ objs[e][i].remote_closed

\* B has two streams that no user of B touched.  One was reset by A's Reset
\* frame and is out of the tables; the other was in the table, open on both
\* sides, when _cleanup ran.  Both have the three flags.
C23_Witness ==
    \E i \in DOMAIN objs["B"] : \E j \in DOMAIN objs["B"] :
       /\ i # j
       /\ \A k \in {i, j} :
             /\ objs["B"][k].reset
             /\ objs["B"][k].local_closed /\ objs["B"][k].remote_closed
             /\ objs["B"][k].send_closed /\ ~objs["B"][k].recv_closed
       /\ streams_none["B"]
       /\ InMsgChannels("B", i)
       /\ objs["B"][j].stream_id \notin DOMAIN streams_msg_channels["B"]

====
